---- MODULE Spec2Model ----
(***************************************************************************)
(* The scanner of the GazeDetector communication board (scanner.js) and    *)
(* the collaborators it drives: the detector's gesture emitter, the stop   *)
(* and start buttons, the menus and their buttons, and the browser's       *)
(* timers.                                                                 *)
(*                                                                         *)
(* JavaScript runs one handler at a time and to completion, so each action *)
(* below is one whole handler of the event loop: a timer callback, a       *)
(* gesture event with every listener the emitter calls for it, a click.    *)
(* The handlers are written as operators from a program state (a record    *)
(* of the variables) to the program state they leave behind, because they  *)
(* call one another synchronously (gazeEnd -> pressButton -> pressed ->    *)
(* action -> finished -> scanMenu -> loop -> step).                        *)
(*                                                                         *)
(* Time is kept as clocks: a timer holds the milliseconds left before it   *)
(* is due, a session holds the value "new Date() - startTime" would have.  *)
(* Time does not pass while a timer is due; handlers due at the same       *)
(* instant run in any order.                                               *)
(***************************************************************************)
EXTENDS Integers, Sequences, FiniteSets, TLC

\* ------------------------------------------------------------------------
\* Program constants (scanner.js)
N_LOOPS == 2
SHORT_GAZE_TIME == 200
LONG_GAZE_TIME == 2000

\* ------------------------------------------------------------------------
\* Bounds of the model
ScanSpeed == 1000       \* the scan-speed slider's value, in ms
TickMax == 1000         \* the longest stretch of time one Tick lets pass
MaxSessions == 5        \* closures of scanMenu / listen alive at once
MaxThreads == 1         \* threads of control live at once on a page with items
MaxClicks == 2          \* threads of control live at once on the bare page
MaxPresses == 2         \* presses of items that have yet to finish

\* ------------------------------------------------------------------------
\* Values
Undefined == 0 - 1      \* a timer that is not pending; NaN for an elapsed time
NoButton == "undefined"

Min(S) == CHOOSE x \in S : \A y \in S : x <= y
Range(q) == {q[i] : i \in 1..Len(q)}
Remove(q, x) == SelectSeq(q, LAMBDA y : y # x)

\* ------------------------------------------------------------------------
\* The menus and their buttons (menus.js, menu-button.js)
Menus == {"composeMain", "email"}
Buttons == {"toEmail", "bell", "m1", "m2"}

getButtons(menu) ==
    CASE menu = "composeMain" -> <<"toEmail", "bell">>
      [] menu = "email" -> <<"m1", "m2">>

getNButtons(menu) == Len(getButtons(menu))

\* getInfo with every menu registered as 'repeat'
getInfoAllRepeat(menu) ==
    CASE menu = "composeMain" -> [hide |-> "commboard", scanType |-> "repeat"]
      [] menu = "email" -> [hide |-> "dropdown", scanType |-> "repeat"]

\* menu.getInfo(): the behaviour given to registerConstructor
getInfo(menu) ==
    CASE menu = "composeMain" -> [hide |-> "commboard", scanType |-> "repeat"]
      [] menu = "email" -> [hide |-> "dropdown", scanType |-> "finish"]

buttonType(button) ==
    CASE button = "toEmail" -> "menuSelector"
      [] button = "bell" -> "callBell"
      [] button \in {"m1", "m2"} -> "email"

getTargetMenu(button) ==
    CASE button = "toEmail" -> "email"
      [] OTHER -> "null"

selectsDropdownMenu(button) ==
    /\ buttonType(button) = "menuSelector"
    /\ getInfo(getTargetMenu(button)).hide = "dropdown"

getWaitMultiplier(button) == IF buttonType(button) = "email" THEN 2 ELSE 1

mainMenu == "composeMain"

\* The buttons whose value is "" (isEmpty), one choice per run: email buttons
\* are empty until a recipient is given a name, and any button of the page may
\* have been given no value
EmptyChoices ==
    {{}, {"m2"}, {"m1"}, {"m1", "m2"}, {"bell"}, {"toEmail"}, Buttons}

\* ------------------------------------------------------------------------
\* State
VARIABLES
    sess,       \* the closures of scanMenu and listen: their state variables
    beginL,     \* detector emitter, listeners of "gestureBegin", in order
    endL,       \* detector emitter, listeners of "gestureEnd", in order
    stopL,      \* stop button, "click" listeners, in order
    status,     \* detector status: idle, listening, scanning
    on,         \* per button: class buttonOn (highlighted)
    shown,      \* per menu: slid down (visible)
    finishL,    \* per button: the one-shot "buttonFinished" listeners
    speaking,   \* per button: speakAsync calls that have yet to run action
    acting,     \* per button: actions that have yet to call my.finished
    orphans,    \* long-gaze timers pending whose closure is garbage: time left
    empty,      \* per button: its value is ""
    gazing,     \* the gesture source: a gesture has begun and not ended
    act,        \* observer: the handler that ran last
    fx,         \* observer: what that handler did, in order
    old,        \* the detector that was replaced: its emitter's listeners
    gest,       \* observer: the gesture in progress or last ended
    halted,     \* observer: a listen controller was stopped, no Start since
    gazeDetector, \* a gaze detector: my.state, my.interval, what it emitted
    buffer,     \* the text buffer: bufferText, and what the last call did
    padded      \* the last call of util.pad: its arguments and what it returned

scannerVars == <<sess, beginL, endL, stopL, status, on, shown, finishL, speaking,
                 acting, orphans, empty, gazing, old, act, fx, gest, halted>>
vars == <<scannerVars, gazeDetector, buffer, padded>>

SessionIds == 1..MaxSessions

FreeSession ==
    [kind |-> "free", menu |-> "null", cb |-> <<>>,
     currentButton |-> NoButton, gazeButton |-> NoButton,
     elapsed |-> Undefined, timeout |-> Undefined,
     buttonIx |-> 0, loopIx |-> 0,
     longGazeTimeout |-> Undefined,
     trail |-> <<>>, cbCalls |-> 0, stopped |-> FALSE, heard |-> FALSE]

\* A closure that no listener and no step timer refers to is garbage; the
\* long-gaze timer it may have left pending refers to signalLongGaze alone
Garbage(ss, registered) ==
    {i \in SessionIds : ss[i].kind # "free" /\ i \notin registered
                                            /\ ss[i].timeout = Undefined}

Collect(ss, registered) ==
    [i \in SessionIds |-> IF i \in Garbage(ss, registered) THEN FreeSession ELSE ss[i]]

Orphaned(ss, registered) ==
    {ss[i].longGazeTimeout : i \in Garbage(ss, registered)} \ {Undefined}

\* No detector has been replaced yet
NoOld == [live |-> FALSE, beginL |-> <<>>, endL |-> <<>>, gazing |-> FALSE]

\* The closures some emitter holds a listener of
Held ==
    Range(stopL) \cup Range(beginL) \cup Range(endL)
                 \cup Range(old.beginL) \cup Range(old.endL)

\* The program state the handlers work on; useSound is what the sound checkbox
\* reads while the handler runs
Cur(useSound) ==
    [useSound |-> useSound,
     sess |-> Collect(sess, Held),
     orphans |-> orphans \cup Orphaned(sess, Held),
     beginL |-> beginL, endL |-> endL, stopL |-> stopL, old |-> old,
     status |-> status, on |-> on, shown |-> shown, finishL |-> finishL,
     speaking |-> speaking, acting |-> acting, fx |-> <<>>, ovf |-> FALSE]

Effect(s, e, id, a) == [s EXCEPT !.fx = Append(@, [e |-> e, s |-> id, a |-> a])]

\* ------------------------------------------------------------------------
\* Collaborators

\* button.toggle()
toggle(s, button) == [s EXCEPT !.on[button] = ~@]

\* button.announce()
announce(s, id, button) ==
    [Effect(s, "announce", id, button) EXCEPT !.sess[id].trail = Append(@, button)]

\* menu.slideUp(), menu.slideDown()
slideUp(s, menu) == [Effect(s, "slideUp", 0, menu) EXCEPT !.shown[menu] = FALSE]
slideDown(s, menu) == [Effect(s, "slideDown", 0, menu) EXCEPT !.shown[menu] = TRUE]

\* detector.idleMode(), listenMode(), scanMode()
setStatus(s, newStatus) == [s EXCEPT !.status = newStatus]

\* speaker.beep(BEEP_FREQ, BEEP_DURATION)
signalLongGaze(s, id) == Effect(s, "beep", id, "-")

registerListeners(s, id) ==
    [s EXCEPT !.beginL = Append(@, id),
              !.endL = Append(@, id),
              !.stopL = Append(@, id)]

unregisterListeners(s, id) ==
    [s EXCEPT !.stopL = Remove(@, id),
              !.beginL = Remove(@, id),
              !.endL = Remove(@, id)]

\* unregister() of scanMenu and of listen
unregister(s, id) == Effect(unregisterListeners(s, id), "unregister", id, "-")

\* A closure of scanMenu or listen takes the lowest slot that was free when
\* the handler started and is free now; 0 when there is none.
Alloc(s) ==
    LET free == {i \in SessionIds : s.sess[i].kind = "free"}
    IN IF free = {} THEN 0 ELSE Min(free)

\* ------------------------------------------------------------------------
\* scanner.js

nextButton(menu, ix) == (ix + 1) % getNButtons(menu)
isLastButton(menu, buttonIx) == buttonIx = getNButtons(menu) - 1
\* nextLoop without the increment after the last button
nextLoopNever(menu, buttonIx, loopIx) == loopIx

nextLoop(menu, buttonIx, loopIx) ==
    IF isLastButton(menu, buttonIx) THEN loopIx + 1 ELSE loopIx
\* isLoopOver one loop late
isLoopOverLate(loopIx) == loopIx = N_LOOPS + 1

isLoopOver(loopIx) == loopIx = N_LOOPS
\* getWaitTime that leaves the wait multiplier out
getWaitTimeFlat(button) == ScanSpeed
getWaitTime(button) == ScanSpeed * getWaitMultiplier(button)

\* A callback is a sequence of frames: what to call, then the callback that
\* call is given. <<scanMenu m>> \o cb is () => scanMenu(m, cb);
\* <<afterTarget b>> \o bcb is afterTarget of makeButtonCallback(b);
\* <<listen>> is listen.
Frame(f, a) == [f |-> f, a |-> a]
ListenCb == <<Frame("listen", "-")>>

RECURSIVE scanMenu(_, _, _), loop(_, _, _, _), Invoke(_, _)

\* listen()
listen(s) ==
    LET id == Alloc(s)
        s1 == setStatus(Effect(s, "listen", id, "-"), "listening")
    IN IF id = 0 THEN [s EXCEPT !.ovf = TRUE]
       ELSE registerListeners(
              [s1 EXCEPT !.sess[id] = [FreeSession EXCEPT !.kind = "listen"]], id)

\* cb() with afterTarget calling bcb() before it slides the menu up
InvokeOuterFirst(s, cb) ==
    IF cb = <<>> THEN s
    ELSE LET h == Head(cb) IN
         CASE h.f = "listen" -> listen(s)
           [] h.f = "scanMenu" -> scanMenu(s, h.a, Tail(cb))
           [] h.f = "afterTarget" ->
                LET s1 == Invoke(s, Tail(cb))
                IN IF selectsDropdownMenu(h.a)
                   THEN slideUp(s1, getTargetMenu(h.a)) ELSE s1

\* cb() where the top-level callback does not call listen()
InvokeForgetsListen(s, cb) ==
    IF cb = <<>> THEN s
    ELSE LET h == Head(cb) IN
         CASE h.f = "listen" -> s
           [] h.f = "scanMenu" -> scanMenu(s, h.a, Tail(cb))
           [] h.f = "afterTarget" ->
                LET s1 == IF selectsDropdownMenu(h.a)
                          THEN slideUp(s, getTargetMenu(h.a)) ELSE s
                IN Invoke(s1, Tail(cb))

\* cb(): call a callback
Invoke(s, cb) ==
    IF cb = <<>> THEN s
    ELSE LET h == Head(cb) IN
         CASE h.f = "listen" -> listen(s)
           [] h.f = "scanMenu" -> scanMenu(s, h.a, Tail(cb))
           [] h.f = "afterTarget" ->
                Invoke(IF selectsDropdownMenu(h.a)
                       THEN slideUp(s, getTargetMenu(h.a)) ELSE s,
                       Tail(cb))

\* step(button, buttonIx, loopIx) of scanMenu
step(s, id, button, buttonIx, loopIx) ==
    LET s1 == [s EXCEPT !.sess[id].currentButton = button]
        s2 == announce(toggle(s1, button), id, button)
    IN [s2 EXCEPT !.sess[id].timeout = getWaitTime(button),
                  !.sess[id].buttonIx = buttonIx,
                  !.sess[id].loopIx = loopIx]

\* loop with cb() called before unregister() at the loop limit
loopCallsBackFirst(s, id, buttonIx, loopIx) ==
    LET menu == s.sess[id].menu
        button == getButtons(menu)[buttonIx + 1]
    IN IF isLoopOver(loopIx)
       THEN LET s2 == [Effect(s, "cb", id, "-") EXCEPT !.sess[id].cbCalls = @ + 1]
            IN unregister(Invoke(s2, s.sess[id].cb), id)
       ELSE IF empty[button]
       THEN loop(s, id, 0, loopIx + 1)
       ELSE step(s, id, button, buttonIx, loopIx)

\* loop that steps on an empty button instead of starting the next pass
loopStepsOnEmpty(s, id, buttonIx, loopIx) ==
    LET menu == s.sess[id].menu
        button == getButtons(menu)[buttonIx + 1]
    IN IF isLoopOver(loopIx)
       THEN LET s1 == unregister(s, id)
                s2 == [Effect(s1, "cb", id, "-") EXCEPT !.sess[id].cbCalls = @ + 1]
            IN Invoke(s2, s.sess[id].cb)
       ELSE step(s, id, button, buttonIx, loopIx)

\* loop that goes on to the item after an empty one
loopSkipsEmpty(s, id, buttonIx, loopIx) ==
    LET menu == s.sess[id].menu
        button == getButtons(menu)[buttonIx + 1]
    IN IF isLoopOver(loopIx)
       THEN LET s1 == unregister(s, id)
                s2 == [Effect(s1, "cb", id, "-") EXCEPT !.sess[id].cbCalls = @ + 1]
            IN Invoke(s2, s.sess[id].cb)
       ELSE IF empty[button]
       THEN loop(s, id, nextButton(menu, buttonIx), nextLoop(menu, buttonIx, loopIx))
       ELSE step(s, id, button, buttonIx, loopIx)

\* loop that calls cb() twice at the loop limit
loopCallsBackTwice(s, id, buttonIx, loopIx) ==
    LET menu == s.sess[id].menu
        button == getButtons(menu)[buttonIx + 1]
    IN IF isLoopOver(loopIx)
       THEN LET s1 == unregister(s, id)
                s2 == [Effect(s1, "cb", id, "-") EXCEPT !.sess[id].cbCalls = @ + 1]
            IN Invoke(Invoke(s2, s.sess[id].cb), s.sess[id].cb)
       ELSE IF empty[button]
       THEN loop(s, id, 0, loopIx + 1)
       ELSE step(s, id, button, buttonIx, loopIx)

\* loop(buttonIx, loopIx) of scanMenu
loop(s, id, buttonIx, loopIx) ==
    LET menu == s.sess[id].menu
        button == getButtons(menu)[buttonIx + 1]
    IN IF isLoopOver(loopIx)
       THEN LET s1 == unregister(s, id)
                s2 == [Effect(s1, "cb", id, "-") EXCEPT !.sess[id].cbCalls = @ + 1]
            IN Invoke(s2, s.sess[id].cb)
       ELSE IF empty[button]
       THEN loop(s, id, 0, loopIx + 1)
       ELSE step(s, id, button, buttonIx, loopIx)

\* scanMenu(menu, cb)
scanMenu(s, menu, cb) ==
    LET id == Alloc(s)
        s1 == [s EXCEPT !.sess[id] = [FreeSession EXCEPT !.kind = "scan",
                                                         !.menu = menu,
                                                         !.cb = cb]]
    IN IF id = 0 THEN [s EXCEPT !.ovf = TRUE]
       ELSE loop(registerListeners(Effect(s1, "scanMenu", id, menu), id), id, 0, 0)

\* next() of step: the step timer's callback
next(s, id) ==
    LET c == s.sess[id]
        s1 == [s EXCEPT !.sess[id].timeout = Undefined]
    IN loop(toggle(s1, c.currentButton), id,
            nextButton(c.menu, c.buttonIx), nextLoop(c.menu, c.buttonIx, c.loopIx))

\* scan()
scan(s) == scanMenu(setStatus(Effect(s, "scan", 0, "-"), "scanning"), mainMenu, ListenCb)

\* JavaScript's comparison of an elapsed time, which is NaN while startTime
\* is undefined: every comparison with NaN is false
\* The comparison as it would be if an undefined startTime counted as a
\* time long past
AtLeastSinceEver(elapsed, limit) == elapsed = Undefined \/ elapsed >= limit

AtLeast(elapsed, limit) == elapsed # Undefined /\ elapsed >= limit
Below(elapsed, limit) == elapsed # Undefined /\ elapsed < limit

RECURSIVE InvokeAll(_, _)
InvokeAll(s, cbs) ==
    IF cbs = <<>> THEN s ELSE InvokeAll(Invoke(s, Head(cbs)), Tail(cbs))

\* my.finished() with listeners added by on() instead of once()
finishedKeepsListeners(s, button) ==
    InvokeAll(Effect(s, "finished", 0, button), s.finishL[button])

\* my.finished(): emit "buttonFinished" to the one-shot listeners
finished(s, button) ==
    InvokeAll([Effect(s, "finished", 0, button) EXCEPT !.finishL[button] = <<>>],
              s.finishL[button])

\* button.action()
action(s, button) ==
    LET s1 == Effect(s, "action", 0, button) IN
    CASE buttonType(button) \in {"letter", "guess"} -> finished(s1, button)
      [] buttonType(button) = "menuSelector" ->
           finished(IF getInfo(getTargetMenu(button)).hide = "dropdown"
                    THEN slideDown(s1, getTargetMenu(button)) ELSE s1,
                    button)
      [] OTHER -> [s1 EXCEPT !.acting[button] = @ + 1]

\* button.pressed()
pressed(s, button) ==
    IF s.useSound
    THEN [s EXCEPT !.speaking[button] = @ + 1]
    ELSE action(s, button)

\* makeButtonCallback with the two scan types taken for each other
makeButtonCallbackSwapped(menu, cb, button) ==
    LET bcb == IF getInfo(menu).scanType = "repeat"
               THEN cb
               ELSE <<Frame("scanMenu", menu)>> \o cb
    IN IF buttonType(button) = "menuSelector"
       THEN <<Frame("scanMenu", getTargetMenu(button)), Frame("afterTarget", button)>> \o bcb
       ELSE bcb

\* makeButtonCallback(button) of scanMenu(menu, cb)
makeButtonCallback(menu, cb, button) ==
    LET bcb == IF getInfo(menu).scanType = "repeat"
               THEN <<Frame("scanMenu", menu)>> \o cb
               ELSE cb
    IN IF buttonType(button) = "menuSelector"
       THEN <<Frame("scanMenu", getTargetMenu(button)), Frame("afterTarget", button)>> \o bcb
       ELSE bcb

\* button.addFinishedListener(listener)
addFinishedListener(s, id, button, listener) ==
    [Effect(s, "addFinishedListener", id, button)
       EXCEPT !.finishL[button] = Append(@, listener)]

\* pressButton with the button pressed before its listener is added
pressButtonListensLate(s, id, button) ==
    LET c == s.sess[id]
        s1 == unregister(s, id)
        s2 == IF c.currentButton = c.gazeButton THEN toggle(s1, button) ELSE s1
        bcb == makeButtonCallback(c.menu, c.cb, button)
    IN addFinishedListener(pressed(Effect(s2, "pressed", id, button), button),
                           id, button, bcb)

\* pressButton without unregister()
pressButtonStaysRegistered(s, id, button) ==
    LET c == s.sess[id]
        s2 == IF c.currentButton = c.gazeButton THEN toggle(s, button) ELSE s
        bcb == makeButtonCallback(c.menu, c.cb, button)
        s3 == addFinishedListener(s2, id, button, bcb)
    IN pressed(Effect(s3, "pressed", id, button), button)

\* pressButton(button) of scanMenu
pressButton(s, id, button) ==
    LET c == s.sess[id]
        s1 == unregister(s, id)
        s2 == IF c.currentButton = c.gazeButton THEN toggle(s1, button) ELSE s1
        bcb == makeButtonCallback(c.menu, c.cb, button)
        s3 == addFinishedListener(s2, id, button, bcb)
    IN pressed(Effect(s3, "pressed", id, button), button)

\* gazeBegin() of scanMenu
gazeBegin(s, id) ==
    [s EXCEPT !.sess[id].gazeButton = s.sess[id].currentButton,
              !.sess[id].elapsed = 0,
              !.sess[id].longGazeTimeout = LONG_GAZE_TIME]

\* gazeEnd() with clearTimeout(timeout) moved in front of the test of elapsed
gazeEndCancelsFirst(s, id) ==
    LET c == s.sess[id]
        s1 == [s EXCEPT !.sess[id].longGazeTimeout = Undefined,
                        !.sess[id].timeout = Undefined]
        s3 == IF c.currentButton # c.gazeButton THEN toggle(s1, c.currentButton) ELSE s1
    IN IF AtLeast(c.elapsed, SHORT_GAZE_TIME)
       THEN IF Below(c.elapsed, LONG_GAZE_TIME)
            THEN pressButton(s3, id, c.gazeButton)
            ELSE LET s4 == unregister(s3, id)
                     s5 == [Effect(s4, "cb", id, "-") EXCEPT !.sess[id].cbCalls = @ + 1]
                 IN Invoke(s5, c.cb)
       ELSE s1

\* gazeEnd() without unregister() before cb() on a long gaze
gazeEndKeepsListeners(s, id) ==
    LET c == s.sess[id]
        s1 == [s EXCEPT !.sess[id].longGazeTimeout = Undefined]
        s2 == [s1 EXCEPT !.sess[id].timeout = Undefined]
        s3 == IF c.currentButton # c.gazeButton THEN toggle(s2, c.currentButton) ELSE s2
    IN IF AtLeast(c.elapsed, SHORT_GAZE_TIME)
       THEN IF Below(c.elapsed, LONG_GAZE_TIME)
            THEN pressButton(s3, id, c.gazeButton)
            ELSE Invoke([Effect(s3, "cb", id, "-") EXCEPT !.sess[id].cbCalls = @ + 1], c.cb)
       ELSE s1

\* gazeEnd() of scanMenu
gazeEnd(s, id) ==
    LET c == s.sess[id]
        s1 == [s EXCEPT !.sess[id].longGazeTimeout = Undefined]
        s2 == [s1 EXCEPT !.sess[id].timeout = Undefined]
        s3 == IF c.currentButton # c.gazeButton THEN toggle(s2, c.currentButton) ELSE s2
    IN IF AtLeast(c.elapsed, SHORT_GAZE_TIME)
       THEN IF Below(c.elapsed, LONG_GAZE_TIME)
            THEN pressButton(s3, id, c.gazeButton)
            ELSE LET s4 == unregister(s3, id)
                     s5 == [Effect(s4, "cb", id, "-") EXCEPT !.sess[id].cbCalls = @ + 1]
                 IN Invoke(s5, c.cb)
       ELSE s1

\* pressStop() without detector.idleMode()
pressStopKeepsMode(s, id) ==
    LET s1 == unregister(s, id)
        s2 == toggle(s1, s.sess[id].currentButton)
        s3 == [s2 EXCEPT !.sess[id].timeout = Undefined, !.sess[id].stopped = TRUE]
    IN Effect(s3, "stopping", id, "-")

\* pressStop() of scanMenu
pressStop(s, id) ==
    LET s1 == unregister(s, id)
        s2 == toggle(s1, s.sess[id].currentButton)
        s3 == [s2 EXCEPT !.sess[id].timeout = Undefined, !.sess[id].stopped = TRUE]
    IN Effect(setStatus(s3, "idle"), "stopping", id, "-")

\* gazeBegin() of listen
listenGazeBegin(s, id) ==
    [s EXCEPT !.sess[id].elapsed = 0,
              !.sess[id].longGazeTimeout = LONG_GAZE_TIME]

\* gazeEnd() of listen with the threshold of a short gaze
listenGazeEndShort(s, id) ==
    LET s1 == [s EXCEPT !.sess[id].longGazeTimeout = Undefined]
    IN IF AtLeast(s.sess[id].elapsed, SHORT_GAZE_TIME)
       THEN scan(unregister(s1, id))
       ELSE s1

\* gazeEnd() of listen
listenGazeEnd(s, id) ==
    LET s1 == [s EXCEPT !.sess[id].longGazeTimeout = Undefined]
    IN IF AtLeast(s.sess[id].elapsed, LONG_GAZE_TIME)
       THEN scan(unregister(s1, id))
       ELSE s1

\* pressStop() of listen
listenPressStop(s, id) ==
    LET s1 == Effect(s, "stopping", id, "-")
        s2 == [unregister(s1, id) EXCEPT !.sess[id].stopped = TRUE]
    IN setStatus(s2, "idle")

\* ------------------------------------------------------------------------
\* The emitters: emit(event) calls the listeners registered when it starts,
\* in the order they were added

RECURSIVE emit(_, _, _)
emit(s, event, ids) ==
    IF ids = <<>> THEN s
    ELSE LET id == Head(ids)
             scanning == s.sess[id].kind = "scan"
             s0 == [Effect(s, event, id, "-") EXCEPT !.sess[id].heard = TRUE]
             s1 == CASE event = "gestureBegin" ->
                          IF scanning THEN gazeBegin(s0, id) ELSE listenGazeBegin(s0, id)
                     [] event = "gestureEnd" ->
                          IF scanning THEN gazeEnd(s0, id) ELSE listenGazeEnd(s0, id)
                     [] event = "click" ->
                          IF scanning THEN pressStop(s0, id) ELSE listenPressStop(s0, id)
         IN emit(s1, event, Tail(ids))

emitGestureStart(s) == emit(s, "gestureBegin", s.beginL)
emitGestureEnd(s) == emit(s, "gestureEnd", s.endL)
clickStop(s) == emit(s, "click", s.stopL)

\* ------------------------------------------------------------------------
\* The gaze detector

\* Bounds: the grey levels of a video frame, the emissions that are recorded
MaxPixel == 2
MaxEmissions == 4

\* The templates the user has captured: a frame at rest and a frame gazing up
RestTemplate == <<0, 0>>
GazeTemplate == <<2, 2>>
Frames == [1..2 -> 0..MaxPixel]

Abs(x) == IF x < 0 THEN 0 - x ELSE x
RECURSIVE l1Distance(_, _)
l1Distance(xs, ys) ==
    IF xs = <<>> \/ ys = <<>> THEN 0
    ELSE Abs(Head(xs) - Head(ys)) + l1Distance(Tail(xs), Tail(ys))

\* makeGazeDetector: state "rest", no interval; nothing emitted yet (frame is
\* the frame the last poll took from the video stream)
makeGazeDetector ==
    [state |-> "rest", interval |-> "null", frame |-> RestTemplate,
     emitted |-> <<>>, out |-> <<>>, op |-> "new"]

\* What the listeners of an emission may do to the detector: nothing, or
\* change its mode (listen's gazeEnd calls scan(), a session's callback
\* listen())
ModeAfter(event) == IF event = "gestureEnd" THEN {"same", "listen", "scan"} ELSE {"same"}

\* detect() that does not store the new state
detectKeepsState(g, streamPixels, mode) ==
    LET dRest == l1Distance(streamPixels, RestTemplate)
        dGaze == l1Distance(streamPixels, GazeTemplate)
        newState == IF dGaze < dRest THEN "gaze" ELSE "rest"
        out == IF g.state = "rest" /\ newState = "gaze" THEN <<"gestureBegin">>
               ELSE IF g.state = "gaze" /\ newState = "rest" THEN <<"gestureEnd">>
               ELSE <<>>
    IN [g EXCEPT !.frame = streamPixels,
                 !.emitted = @ \o out, !.out = out, !.op = "detect",
                 !.interval = IF mode = "same" THEN @ ELSE mode]

\* my.detect(): compare the frame with the templates, emit on a change of
\* state (the listeners run inside the emission), then store the new state
detect(g, streamPixels, mode) ==
    LET dRest == l1Distance(streamPixels, RestTemplate)
        dGaze == l1Distance(streamPixels, GazeTemplate)
        newState == IF dGaze < dRest THEN "gaze" ELSE "rest"
        out == IF g.state = "rest" /\ newState = "gaze" THEN <<"gestureBegin">>
               ELSE IF g.state = "gaze" /\ newState = "rest" THEN <<"gestureEnd">>
               ELSE <<>>
    IN [g EXCEPT !.state = newState, !.frame = streamPixels,
                 !.emitted = @ \o out, !.out = out, !.op = "detect",
                 !.interval = IF mode = "same" THEN @ ELSE mode]

\* idleMode / listenMode / scanMode of the gaze detector: clearInterval, and
\* setInterval at the mode's refresh rate
gazeIdleMode(g) == [g EXCEPT !.interval = "null", !.out = <<>>, !.op = "idleMode"]
gazeListenMode(g) == [g EXCEPT !.interval = "listen", !.out = <<>>, !.op = "listenMode"]
gazeScanMode(g) == [g EXCEPT !.interval = "scan", !.out = <<>>, !.op = "scanMode"]

\* ------------------------------------------------------------------------
\* The text buffer. A string is a sequence of characters.

CURSOR == "_"

\* Bound: the length of the text that is written to
MaxText == 4

\* What the buttons write: the letters of the letter menus, the guessed
\* words, and the punctuation of the punctuation menu
Letters == {<<"a">>}
Words == {<<"h", "i">>}
NonTerminalPunctuation == {<<",">>}
TerminalPunctuation == {<<".">>, <<"?">>}
WriterTypes == {"letter", "space", "word", "nonTerminalPunctuation", "terminalPunctuation"}
Texts(type) ==
    CASE type = "letter" -> Letters
      [] type = "space" -> {<<" ">>}
      [] type = "word" -> Words
      [] type = "nonTerminalPunctuation" -> NonTerminalPunctuation
      [] type = "terminalPunctuation" -> TerminalPunctuation

\* String.prototype.toUpperCase, character by character
toUpperCase(char) ==
    CASE char = "a" -> "A"
      [] char = "h" -> "H"
      [] char = "i" -> "I"
      [] OTHER -> char

\* str.slice(0, -1) and str.slice(-n)
DropLast(str) == IF str = <<>> THEN <<>> ELSE SubSeq(str, 1, Len(str) - 1)
TakeLast(str, n) == IF Len(str) <= n THEN str ELSE SubSeq(str, Len(str) - n + 1, Len(str))

\* util.capitalize(text)
capitalize(text) == <<toUpperCase(text[1])>> \o Tail(text)

\* buffer(speaker): bufferText is the cursor; changes and cbs count the
\* "bufferChange" emissions and the callback calls of the last call, and
\* call is that call, with the text it found
makeBuffer == [bufferText |-> <<CURSOR>>, changes |-> 0, cbs |-> 0,
               call |-> [name |-> "new", type |-> "-", text |-> <<>>, before |-> <<>>]]

getText(b) == DropLast(b.bufferText)
emitChange(b) == [b EXCEPT !.changes = @ + 1]
callback(b) == [b EXCEPT !.cbs = @ + 1]
push(b, str) == [b EXCEPT !.bufferText = @ \o str]
pop(b) == [b EXCEPT !.bufferText = DropLast(@)]

\* char.match(/[.!?]/) !== null
isTerminalPunctuation(str) == \E k \in 1..Len(str) : str[k] \in {".", "!", "?"}
isBufferWordStart(b) == getText(b) = <<>> \/ TakeLast(getText(b), 1) = <<" ">>
isBufferSentenceStart(b) ==
    LET text == getText(b)
    IN \/ text = <<>>
       \/ /\ TakeLast(text, 1) = <<" ">>
          /\ isTerminalPunctuation(TakeLast(text, 2))

\* writeText that leaves the old cursor where it is
writeTextKeepsCursor(b, text) == push(push(b, text), <<CURSOR>>)

\* writeText(text): pop the cursor, push the text, push the cursor
writeText(b, text) == push(push(pop(b), text), <<CURSOR>>)

\* writeLetter that writes the letter as it is given
writeLetterPlain(b, text) == writeText(b, text)

\* writeLetter(text)
writeLetter(b, text) ==
    writeText(b, IF isBufferSentenceStart(b) THEN capitalize(text) ELSE text)

writeSpace(b) == writeText(b, <<" ">>)

\* while (!isBufferWordStart()) pop();
RECURSIVE popPartialWord(_)
popPartialWord(b) == IF isBufferWordStart(b) THEN b ELSE popPartialWord(pop(b))

\* writeWord that does not look for a partial word
writeWordAppends(b, text) ==
    LET toWrite == IF isBufferSentenceStart(b) THEN capitalize(text) ELSE text
    IN writeSpace(writeText(b, toWrite))

\* writeWord(text)
writeWord(b, text) ==
    LET b1 == popPartialWord(b)
        toWrite == IF isBufferSentenceStart(b1) THEN capitalize(text) ELSE text
    IN writeSpace(writeText(b1, toWrite))

\* writeTerminalPunctuation that never takes a space back
writeTerminalPunctuationKeepsSpace(b, text) == writeSpace(writeText(b, text))

\* writeTerminalPunctuation(text)
writeTerminalPunctuation(b, text) ==
    LET b1 == IF isBufferWordStart(b) /\ ~isBufferSentenceStart(b) THEN pop(b) ELSE b
    IN writeSpace(writeText(b1, text))

\* deleteText that pops the cursor only
deleteTextOnePop(b) == callback(emitChange(push(pop(b), <<CURSOR>>)))

\* deleteText(cb)
deleteText(b) == callback(emitChange(push(pop(pop(b)), <<CURSOR>>)))

\* clearBuffer(cb)
clearBuffer(b) == callback(emitChange([b EXCEPT !.bufferText = <<CURSOR>>]))

\* that.write(text, type): the writer of the type, then emitChange
write(b, text, type) ==
    LET b0 == [b EXCEPT !.changes = 0, !.cbs = 0,
                        !.call = [name |-> "write", type |-> type, text |-> text,
                                  before |-> getText(b)]]
    IN emitChange(CASE type = "letter" -> writeLetter(b0, text)
                    [] type = "space" -> writeSpace(b0)
                    [] type = "word" -> writeWord(b0, text)
                    [] type = "nonTerminalPunctuation" -> writeText(b0, text)
                    [] type = "terminalPunctuation" -> writeTerminalPunctuation(b0, text))

\* that.executeAction(actionName, cbpressed)
executeAction(b, actionName) ==
    LET b0 == [b EXCEPT !.changes = 0, !.cbs = 0,
                        !.call = [name |-> actionName, type |-> "-", text |-> <<>>,
                                  before |-> getText(b)]]
    IN CASE actionName = "delete" -> deleteText(b0)
         [] actionName = "clear" -> clearBuffer(b0)

\* ------------------------------------------------------------------------
\* util.pad. An array is a sequence.

\* Bounds: the length of the array given to pad, and the length asked for
MaxArray == 3
MaxLen == 4

\* The elements of the arrays, and the values to fill with
Elements == {"q", "z"}
FillVals == {"", "q"}
Arrays == UNION {[1..n -> Elements] : n \in 0..MaxArray}

\* xs.slice(0, end), end not negative
slice(xs, end) == SubSeq(xs, 1, IF end <= Len(xs) THEN end ELSE Len(xs))

\* repeat(x, n)
repeat(x, n) == [k \in 1..n |-> x]

\* pad that returns an array that is long enough as it is
padKeepsLong(xs, fillVal, len) ==
    IF Len(xs) >= len
    THEN [xs |-> xs, ret |-> xs]
    ELSE [xs |-> xs, ret |-> xs \o repeat(fillVal, len - Len(xs))]

\* pad(xs, fillVal, len): the array returned, and xs after the call
pad(xs, fillVal, len) ==
    IF Len(xs) >= len
    THEN [xs |-> xs, ret |-> slice(xs, len)]
    ELSE LET nMissing == len - Len(xs)
             padding == repeat(fillVal, nMissing)
         IN [xs |-> xs, ret |-> xs \o padding]

\* ------------------------------------------------------------------------
\* The event loop

\* The timers that are pending, as the time left before each is due
PendingTimers(s) ==
    ({s.sess[i].timeout : i \in SessionIds} \cup
     {s.sess[i].longGazeTimeout : i \in SessionIds} \cup s.orphans) \ {Undefined}

Threads(s) ==
    Len(s.stopL)
    + Cardinality({<<b, i>> \in Buttons \X SessionIds : i <= Len(s.finishL[b])})

Handled(q, event) == {q[i].s : i \in {j \in 1..Len(q) : q[j].e = event}}
Count(q, e, id) == Cardinality({j \in 1..Len(q) : q[j].e = e /\ q[j].s = id})
CapInc(n, cap) == IF n < cap THEN n + 1 ELSE n

StepCap == 2
BeepCap == 2

\* The observer of gestures: who handled the begin and what was under point,
\* the time since the begin, and what has happened since. seen and point
\* follow the closures that handled the begin; lost holds what was under
\* point for those that have become garbage.
NoGest ==
    [seen |-> {}, point |-> [i \in SessionIds |-> NoButton], lost |-> {},
     age |-> 0, steps |-> 0, beeps |-> 0, stops |-> 0]

ObserveBegin(s0, s) ==
    [NoGest EXCEPT
       !.seen = Handled(s.fx, "gestureBegin"),
       !.point = [i \in SessionIds |->
                    IF i \in Range(s0.beginL) /\ s0.sess[i].kind = "scan"
                    THEN s0.sess[i].currentButton ELSE NoButton]]

Ongoing(g) == IF gazing THEN g ELSE NoGest

RECURSIVE SetToSeq(_)
SetToSeq(S) == IF S = {} THEN <<>> ELSE <<Min(S)>> \o SetToSeq(S \ {Min(S)})

\* The closures are numbered anew after every handler: the registered ones
\* first, in the order of the stop button's listeners, then the others
Order(s) ==
    s.stopL \o SetToSeq({i \in SessionIds :
                           s.sess[i].kind # "free" /\ i \notin Range(s.stopL)})
Slot(order, id) ==
    IF id \in Range(order) THEN CHOOSE k \in 1..Len(order) : order[k] = id ELSE 0
Slots(order, q) == [k \in 1..Len(q) |-> Slot(order, q[k])]

Observe(s, g, order) ==
    LET fresh == Handled(s.fx, "scanMenu") \cup Handled(s.fx, "listen")
        kept == {i \in g.seen : s.sess[i].kind # "free" /\ i \notin fresh}
    IN [g EXCEPT
          !.seen = {Slot(order, i) : i \in kept},
          !.point = [k \in SessionIds |->
                       IF k <= Len(order) /\ order[k] \in kept
                       THEN g.point[order[k]] ELSE NoButton],
          !.lost = (@ \cup {g.point[i] : i \in g.seen \ kept}) \ {NoButton},
          !.beeps = IF Handled(s.fx, "beep") # {} THEN CapInc(@, BeepCap) ELSE @]

\* Whether the stop button has stopped a listen controller and the start
\* button has not been clicked since
Halted(s, a) ==
    CASE a.name = "Start" -> FALSE
      [] a.name = "Stop" /\ (\E i \in Handled(s.fx, "stopping") : s.sess[i].kind = "listen") -> TRUE
      [] OTHER -> halted

Commit(after, a, g) ==
    \E s \in {after} : \E order \in {Order(s)} :
    /\ ~s.ovf
    /\ sess' = [k \in SessionIds |->
                  IF k <= Len(order) THEN s.sess[order[k]] ELSE FreeSession]
    /\ beginL' = Slots(order, s.beginL)
    /\ endL' = Slots(order, s.endL)
    /\ stopL' = Slots(order, s.stopL)
    /\ status' = s.status
    /\ on' = s.on
    /\ shown' = s.shown
    /\ finishL' = s.finishL
    /\ speaking' = s.speaking
    /\ acting' = s.acting
    /\ orphans' = s.orphans
    /\ fx' = [k \in 1..Len(s.fx) |-> [s.fx[k] EXCEPT !.s = Slot(order, @)]]
    /\ act' = [a EXCEPT !.id = Slot(order, @)]
    /\ gest' = Observe(s, g, order)
    /\ halted' = Halted(s, a)
    /\ old' = [s.old EXCEPT !.beginL = Slots(order, @), !.endL = Slots(order, @)]
    /\ UNCHANGED <<empty, gazeDetector, buffer, padded>>

Act(name, id, button) == [name |-> name, id |-> id, button |-> button]

\* No scan is under way: all that is live are listen controllers between
\* gestures. The start button is clicked at such moments only, which keeps
\* the threads of control it starts in step with each other.
Quiet(s) ==
    /\ \A i \in SessionIds : s.sess[i].kind # "scan"
    /\ \A b \in Buttons : s.finishL[b] = <<>>
    /\ ~gazing

\* startButton "click": listen
Start(limit) ==
    /\ Threads(Cur(FALSE)) < limit
    /\ Quiet(Cur(FALSE))
    /\ Commit(listen(Cur(FALSE)), Act("Start", 0, "-"), Ongoing(gest))
    /\ UNCHANGED gazing

\* stopButton "click"
Stop ==
    /\ Commit(clickStop(Cur(FALSE)), Act("Stop", 0, "-"),
              Ongoing([gest EXCEPT !.stops = CapInc(@, 1)]))
    /\ UNCHANGED gazing

\* The detector emits "gestureBegin"
GestureBegin ==
    /\ ~gazing
    /\ gazing' = TRUE
    /\ LET s == emitGestureStart(Cur(FALSE))
       IN Commit(s, Act("GestureBegin", 0, "-"), ObserveBegin(Cur(FALSE), s))

\* The detector emits "gestureEnd"
GestureEnd ==
    /\ gazing
    /\ gazing' = FALSE
    /\ \E useSound \in BOOLEAN :
         Commit(emitGestureEnd(Cur(useSound)), Act("GestureEnd", 0, "-"), gest)

\* A step timer is due: next()
StepTimeout(id) ==
    /\ Cur(FALSE).sess[id].timeout = 0
    /\ \E s \in {Cur(FALSE)} :
         Commit(next(s, id), Act("StepTimeout", id, "-"),
                Ongoing([gest EXCEPT !.steps = CapInc(@, StepCap)]))
    /\ UNCHANGED gazing

\* A long-gaze timer is due: signalLongGaze()
LongGazeTimeout(id) ==
    /\ Cur(FALSE).sess[id].longGazeTimeout = 0
    /\ \E s \in {[Cur(FALSE) EXCEPT !.sess[id].longGazeTimeout = Undefined]} :
         Commit(signalLongGaze(s, id), Act("LongGazeTimeout", id, "-"), Ongoing(gest))
    /\ UNCHANGED gazing

\* The long-gaze timer of a closure that is garbage is due: signalLongGaze()
OrphanTimeout ==
    /\ 0 \in Cur(FALSE).orphans
    /\ \E s \in {[Cur(FALSE) EXCEPT !.orphans = @ \ {0}]} :
         Commit(signalLongGaze(s, 0), Act("OrphanTimeout", 0, "-"), Ongoing(gest))
    /\ UNCHANGED gazing

\* speakAsync has read the announcement: afterRead's timer calls that.action
SpeechEnd(button) ==
    /\ speaking[button] > 0
    /\ \E s \in {[Cur(FALSE) EXCEPT !.speaking[button] = @ - 1]} :
         Commit(action(s, button), Act("SpeechEnd", 0, button), Ongoing(gest))
    /\ UNCHANGED gazing

\* An action that did not finish at once (call bell, email) calls my.finished
ActionEnd(button) ==
    /\ acting[button] > 0
    /\ \E s \in {[Cur(FALSE) EXCEPT !.acting[button] = @ - 1]} :
         Commit(finished(s, button), Act("ActionEnd", 0, button), Ongoing(gest))
    /\ UNCHANGED gazing

\* Time passes: up to TickMax, and never past a pending timer
Tick ==
    LET d == Min({TickMax} \cup PendingTimers(Cur(FALSE)))
        later(x) == IF x = Undefined THEN x ELSE x - d
        older(x) == IF x = Undefined THEN x
                    ELSE IF x + d > LONG_GAZE_TIME THEN LONG_GAZE_TIME ELSE x + d
        s == Cur(FALSE)
    IN /\ d > 0
       /\ Commit([s EXCEPT !.sess = [i \in SessionIds |->
                     [s.sess[i] EXCEPT !.timeout = later(@),
                                       !.longGazeTimeout = later(@),
                                       !.elapsed = older(@)]],
                             !.orphans = {later(x) : x \in @}],
                 Act("Tick", 0, "-"),
                 Ongoing([gest EXCEPT !.age = older(@)]))
       /\ UNCHANGED gazing

Init ==
    /\ sess = [i \in SessionIds |-> FreeSession]
    /\ beginL = <<>>
    /\ endL = <<>>
    /\ stopL = <<>>
    /\ status = "idle"
    /\ on = [b \in Buttons |-> FALSE]
    /\ shown = [m \in Menus |-> getInfo(m).hide # "dropdown"]
    /\ finishL = [b \in Buttons |-> <<>>]
    /\ speaking = [b \in Buttons |-> 0]
    /\ acting = [b \in Buttons |-> 0]
    /\ orphans = {}
    /\ \E E \in EmptyChoices : empty = [b \in Buttons |-> b \in E]
    /\ gazing = FALSE
    /\ old = NoOld
    /\ act = Act("Init", 0, "-")
    /\ fx = <<>>
    /\ gest = NoGest
    /\ halted = FALSE
    /\ gazeDetector = makeGazeDetector
    /\ buffer = makeBuffer
    /\ padded = [xs |-> <<>>, fillVal |-> "", len |-> 0,
                 given |-> <<>>, ret |-> <<>>, op |-> "new"]

Next ==
    \/ Start(MaxThreads)
    \/ Stop
    \/ GestureBegin
    \/ GestureEnd
    \/ \E id \in SessionIds : StepTimeout(id)
    \/ \E id \in SessionIds : LongGazeTimeout(id)
    \/ OrphanTimeout
    \/ \E button \in Buttons : SpeechEnd(button)
    \/ \E button \in Buttons : ActionEnd(button)
    \/ Tick

Spec == Init /\ [][Next]_vars

\* The page with nothing to scan (every button empty), where the start button
\* is clicked again while a listen controller is live. A scan of such a page
\* is over within the handler that starts it, so no step timer, speech or
\* action is ever pending.
InitBare ==
    /\ Init
    /\ \A b \in Buttons : empty[b]

NextClicks ==
    \/ Start(MaxClicks)
    \/ Stop
    \/ GestureBegin
    \/ GestureEnd
    \/ \E id \in SessionIds : LongGazeTimeout(id)
    \/ OrphanTimeout
    \/ Tick

SpecClicks == InitBare /\ [][NextClicks]_vars

\* The same program where every timer that is due fires (setTimeout), every
\* announcement is read to its end and every action that was started calls
\* my.finished; the events of the user (clicks, gestures) are under no
\* such obligation
Fairness ==
    /\ \A id \in SessionIds : WF_vars(StepTimeout(id))
    /\ \A id \in SessionIds : WF_vars(LongGazeTimeout(id))
    /\ WF_vars(OrphanTimeout)
    /\ \A button \in Buttons : WF_vars(SpeechEnd(button))
    /\ \A button \in Buttons : WF_vars(ActionEnd(button))
    /\ WF_vars(Tick)

SpecFair == Init /\ [][Next]_vars /\ Fairness

\* startButton "click" between two gestures, a scan or an activation under
\* way or not
StartAnytime(limit) ==
    /\ Threads(Cur(FALSE)) < limit
    /\ ~gazing
    /\ Commit(listen(Cur(FALSE)), Act("Start", 0, "-"), Ongoing(gest))
    /\ UNCHANGED gazing

\* The gaze detector emits "gestureBegin": it is listening or scanning, not
\* idle; and at most one thread of control is live
GestureBeginAlone ==
    /\ status # "idle"
    /\ Threads(Cur(FALSE)) <= 1
    /\ GestureBegin

\* The page whose dropdown has nothing to scan, where the start button is
\* clicked whatever the scanner is doing, and a gesture begins only while
\* the detector is not idle and one thread of control is live
InitBusy ==
    /\ Init
    /\ \A b \in Buttons : empty[b] <=> b \in {"m1", "m2"}

NextBusy ==
    \/ StartAnytime(MaxClicks)
    \/ Stop
    \/ GestureBeginAlone
    \/ GestureEnd
    \/ \E id \in SessionIds : StepTimeout(id)
    \/ \E id \in SessionIds : LongGazeTimeout(id)
    \/ OrphanTimeout
    \/ \E button \in Buttons : SpeechEnd(button)
    \/ \E button \in Buttons : ActionEnd(button)
    \/ Tick

SpecBusy == InitBusy /\ [][NextBusy]_vars

\* startButton "click" while the detector is idle
StartWhenIdle ==
    /\ status = "idle"
    /\ \E s \in {Cur(FALSE)} : Commit(listen(s), Act("Start", 0, "-"), Ongoing(gest))
    /\ UNCHANGED gazing

\* The page where the start button is clicked while the detector is idle
\* and at no other time
NextIdle ==
    \/ StartWhenIdle
    \/ Stop
    \/ GestureBegin
    \/ GestureEnd
    \/ \E id \in SessionIds : StepTimeout(id)
    \/ \E id \in SessionIds : LongGazeTimeout(id)
    \/ OrphanTimeout
    \/ \E button \in Buttons : SpeechEnd(button)
    \/ \E button \in Buttons : ActionEnd(button)
    \/ Tick

SpecIdle == Init /\ [][NextIdle]_vars

\* The interval calls my.detect with the frame of the camera
Detect ==
    /\ gazeDetector.interval # "null"
    /\ Len(gazeDetector.emitted) < MaxEmissions
    /\ \E streamPixels \in Frames :
         \E g \in {detect(gazeDetector, streamPixels, "same")} :
           \E mode \in UNION {ModeAfter(g.out[k]) : k \in 1..Len(g.out)} \cup {"same"} :
             gazeDetector' = detect(gazeDetector, streamPixels, mode)
    /\ UNCHANGED <<scannerVars, buffer, padded>>

IdleMode == gazeDetector' = gazeIdleMode(gazeDetector) /\ UNCHANGED <<scannerVars, buffer, padded>>
ListenMode == gazeDetector' = gazeListenMode(gazeDetector) /\ UNCHANGED <<scannerVars, buffer, padded>>
ScanMode == gazeDetector' = gazeScanMode(gazeDetector) /\ UNCHANGED <<scannerVars, buffer, padded>>

InitGaze == Init /\ \A b \in Buttons : empty[b]
NextGaze == Detect \/ IdleMode \/ ListenMode \/ ScanMode
SpecGaze == InitGaze /\ [][NextGaze]_vars

\* A button writes to the buffer
Write(type) ==
    /\ Len(getText(buffer)) <= MaxText
    /\ \E text \in Texts(type) : buffer' = write(buffer, text, type)
    /\ UNCHANGED <<scannerVars, gazeDetector, padded>>

\* A button has the buffer execute an action
ExecuteAction(actionName) ==
    /\ buffer' = executeAction(buffer, actionName)
    /\ UNCHANGED <<scannerVars, gazeDetector, padded>>

InitBuffer == Init /\ \A b \in Buttons : empty[b]
NextBuffer ==
    \/ \E type \in WriterTypes : Write(type)
    \/ \E actionName \in {"delete", "clear"} : ExecuteAction(actionName)
SpecBuffer == InitBuffer /\ [][NextBuffer]_vars

\* A row of the board or the list of guesses is padded
Pad ==
    /\ \E xs \in Arrays, fillVal \in FillVals, len \in 0..MaxLen :
           LET r == pad(xs, fillVal, len)
           IN padded' = [xs |-> r.xs, fillVal |-> fillVal, len |-> len,
                         given |-> xs, ret |-> r.ret, op |-> "pad"]
    /\ UNCHANGED <<scannerVars, gazeDetector, buffer>>

InitPad == Init /\ \A b \in Buttons : empty[b]
NextPad == Pad
SpecPad == InitPad /\ [][NextPad]_vars

\* The presses whose announcement or action has yet to end
Presses(s) ==
    Cardinality({<<b, i>> \in Buttons \X (1..MaxPresses) :
                   i <= s.speaking[b] + s.acting[b]})

\* buttonElem "click": the item is clicked with the mouse while the scanner's
\* activation of it is in progress
MouseClick(button) ==
    /\ finishL[button] # <<>>
    /\ Presses(Cur(FALSE)) < MaxPresses
    /\ \E useSound \in BOOLEAN : \E s \in {Cur(useSound)} :
         Commit(pressed(s, button), Act("MouseClick", 0, button), Ongoing(gest))
    /\ UNCHANGED gazing

NextMouse ==
    \/ Next
    \/ \E button \in Buttons : MouseClick(button)

SpecMouse == InitBusy /\ [][NextMouse]_vars

\* detElem "change": the wrapper's prototype becomes a new detector, which
\* has an emitter of its own and starts idle; the one it replaces keeps its
\* listeners
Change ==
    /\ ~old.live
    /\ ~gazing
    /\ \E s \in {Cur(FALSE)} :
         Commit([s EXCEPT !.old = [live |-> TRUE, beginL |-> s.beginL,
                                   endL |-> s.endL, gazing |-> FALSE],
                          !.beginL = <<>>, !.endL = <<>>, !.status = "idle"],
                Act("Change", 0, "-"), Ongoing(gest))
    /\ UNCHANGED gazing

\* The detector that was replaced emits "gestureBegin"
OldGestureBegin ==
    /\ old.live /\ ~old.gazing
    /\ ~gazing
    /\ \E s \in {[Cur(FALSE) EXCEPT !.old.gazing = TRUE]} :
         Commit(emit(s, "gestureBegin", s.old.beginL),
                Act("OldGestureBegin", 0, "-"), Ongoing(gest))
    /\ UNCHANGED gazing

\* The detector that was replaced emits "gestureEnd"
OldGestureEnd ==
    /\ old.live /\ old.gazing
    /\ \E useSound \in BOOLEAN :
         \E s \in {[Cur(useSound) EXCEPT !.old.gazing = FALSE]} :
           Commit(emit(s, "gestureEnd", s.old.endL),
                  Act("OldGestureEnd", 0, "-"), Ongoing(gest))
    /\ UNCHANGED gazing

\* The page with nothing to scan, where the detector is changed once
NextSwitch ==
    \/ NextClicks
    \/ Change
    \/ OldGestureBegin
    \/ OldGestureEnd

SpecSwitch == InitBare /\ [][NextSwitch]_vars

\* ------------------------------------------------------------------------
\* Properties

Registered(i) == i \in Range(beginL) /\ i \in Range(endL) /\ i \in Range(stopL)
Unregistered(i) == i \notin Range(beginL) \cup Range(endL) \cup Range(stopL)
PressedBy(i) == {fx[k].a : k \in {j \in 1..Len(fx) : fx[j].e = "pressed" /\ fx[j].s = i}}
NonEmpty(menu) == SelectSeq(getButtons(menu), LAMBDA b : ~empty[b])
RECURSIVE Passes(_, _)
Passes(menu, n) == IF n = 0 THEN <<>> ELSE NonEmpty(menu) \o Passes(menu, n - 1)
\* The items of a menu that precede its first empty item
RECURSIVE LeadOf(_)
LeadOf(q) ==
    IF q = <<>> \/ empty[Head(q)] THEN <<>> ELSE <<Head(q)>> \o LeadOf(Tail(q))
Lead(menu) == LeadOf(getButtons(menu))
RECURSIVE LeadPasses(_, _)
LeadPasses(menu, n) == IF n = 0 THEN <<>> ELSE Lead(menu) \o LeadPasses(menu, n - 1)
IsPrefix(p, q) == Len(p) <= Len(q) /\ \A k \in 1..Len(p) : p[k] = q[k]
\* The long-gaze timers that are pending, whoever armed them
LongGazeTimers == ({sess[i].longGazeTimeout : i \in SessionIds} \cup orphans) \ {Undefined}

\* C1: when a gesture that began while scan sessions were stepping ends with
\* SHORT_GAZE_TIME <= elapsed < LONG_GAZE_TIME (and no stop in between), each
\* of those sessions presses exactly one item, the one that was its
\* currentButton when the gesture began, whatever step timeouts fired since.
C1_ShortGazePressesItemUnderPoint ==
    (act.name = "GestureEnd" /\ gest.stops = 0
       /\ gest.age >= SHORT_GAZE_TIME /\ gest.age < LONG_GAZE_TIME)
    => /\ gest.lost = {}
       /\ \A i \in gest.seen :
            gest.point[i] # NoButton
            => PressedBy(i) = {gest.point[i]} /\ Count(fx, "pressed", i) = 1

\* C2: at most one set of handlers (one scan session or one listen
\* controller) is registered with the detector and the stop button.
C2_OneHandlerSet == Len(beginL) <= 1 /\ Len(endL) <= 1 /\ Len(stopL) <= 1

C5_BriefGestureChangesNothing ==
    [][act'.name = "GestureEnd"
       => \A i \in Range(endL) :
            (sess[i].kind = "scan" /\ Below(sess[i].elapsed, SHORT_GAZE_TIME))
            => \E j \in SessionIds :
                 /\ j \in Range(beginL') /\ j \in Range(endL') /\ j \in Range(stopL')
                 /\ sess'[j] = [sess[i] EXCEPT !.longGazeTimeout = Undefined]
                 /\ sess'[j].timeout # Undefined
                 /\ Count(fx', "pressed", j) = 0
                 /\ Count(fx', "cb", j) = 0
                 /\ Len(endL) = 1
                    => /\ on' = on /\ shown' = shown /\ status' = status
                       /\ finishL' = finishL /\ speaking' = speaking
                       /\ acting' = acting]_vars

\* C5 happens: a scan session has handled the end of a gesture that lasted
\* less than SHORT_GAZE_TIME
C5_Witness ==
    /\ act.name = "GestureEnd"
    /\ \E i \in Range(endL) :
         /\ sess[i].kind = "scan"
         /\ Count(fx, "gestureEnd", i) = 1
         /\ Below(sess[i].elapsed, SHORT_GAZE_TIME)
         /\ sess[i].timeout # Undefined

\* C6: a scan session that has handled a gesture end with elapsed >=
\* LONG_GAZE_TIME is unregistered, has no step timer pending, has called its
\* callback exactly once and has pressed no item.
C6_LongGazeExitsMenu ==
    act.name = "GestureEnd"
    => \A i \in SessionIds :
         (sess[i].kind = "scan" /\ Count(fx, "gestureEnd", i) = 1
            /\ AtLeast(sess[i].elapsed, LONG_GAZE_TIME))
         => /\ Unregistered(i)
            /\ sess[i].timeout = Undefined
            /\ Count(fx, "cb", i) = 1
            /\ sess[i].cbCalls = 1
            /\ PressedBy(i) = {}

\* C6 happens: a scan session has handled the end of a gesture that lasted
\* LONG_GAZE_TIME or more
C6_Witness ==
    /\ act.name = "GestureEnd"
    /\ \E i \in SessionIds :
         /\ sess[i].kind = "scan"
         /\ Count(fx, "gestureEnd", i) = 1
         /\ AtLeast(sess[i].elapsed, LONG_GAZE_TIME)
         /\ sess[i].cbCalls = 1

\* C7: once a gesture has ended, no long-gaze timer is pending (each was
\* cancelled or has fired), so no cue can sound after the gesture.
C7_NoCueTimerAfterGesture == ~gazing => LongGazeTimers = {}

\* C8: during a gesture that a live controller saw begin, the cue sounds at
\* most once and only at the LONG_GAZE_TIME mark, and it has sounded once
\* when the gesture is still on at that mark with no timer left to fire.
C8_CueOnceAtLongGazeMark ==
    (gazing /\ gest.seen # {})
    => /\ gest.beeps <= 1
       /\ gest.beeps = 1 => gest.age = LONG_GAZE_TIME
       /\ (gest.age = LONG_GAZE_TIME /\ 0 \notin LongGazeTimers) => gest.beeps = 1

\* C9: right after a stop click that a scan session handled, the session is
\* unregistered, its current item is not highlighted, its step timer is not
\* pending, the detector is idle and the callback has not been called.
C9_StopTearsDownSession ==
    act.name = "Stop"
    => \A i \in SessionIds :
         (sess[i].kind = "scan" /\ sess[i].stopped)
         => /\ Unregistered(i)
            /\ ~on[sess[i].currentButton]
            /\ sess[i].timeout = Undefined
            /\ status = "idle"
            /\ sess[i].cbCalls = 0

\* C10: a scan session that has handled a stop click has no timer pending,
\* neither the step timer nor the long-gaze timer.
C10_NoTimerAfterStop ==
    \A i \in SessionIds :
      (sess[i].kind = "scan" /\ sess[i].stopped)
      => sess[i].timeout = Undefined /\ sess[i].longGazeTimeout = Undefined

\* C11: a scan session that is no longer registered (it selected, exited or
\* was stopped) has no step timer pending; and when a gesture that began
\* while scan sessions were stepping ends with SHORT_GAZE_TIME <= elapsed <
\* LONG_GAZE_TIME in the instant a step timer is due, whether the timer's
\* callback ran just before the gesture end or is still to run, each of those
\* sessions presses the item that was under point when the gesture began and
\* is left unregistered without a step timer.
C11_OneOutcomePerStep ==
    [][/\ \A i \in SessionIds :
            (sess'[i].kind = "scan" /\ Unregistered(i)')
            => sess'[i].timeout = Undefined
       /\ (/\ act'.name = "GestureEnd"
           /\ gest'.stops = 0
           /\ gest'.age >= SHORT_GAZE_TIME /\ gest'.age < LONG_GAZE_TIME
           /\ \E i \in gest.seen : gest.point[i] # NoButton
           /\ \/ act.name = "StepTimeout"
              \/ \E i \in SessionIds : sess[i].timeout = 0)
          => /\ gest'.lost = {}
             /\ \A i \in gest'.seen :
                  gest'.point[i] # NoButton
                  => /\ PressedBy(i)' = {gest'.point[i]}
                     /\ Count(fx', "pressed", i) = 1
                     /\ Unregistered(i)'
                     /\ sess'[i].timeout = Undefined]_vars

\* C12: every pressed() of an activation comes right after the session's
\* unregister() and the addFinishedListener() of the continuation, in that
\* order; the session that pressed is unregistered and has no step timer
\* pending, and unless the item has finished within the handler it has a
\* finished listener.
C12_ActivationOrder ==
    /\ \A k \in 1..Len(fx) :
         fx[k].e = "pressed"
         => /\ k >= 3
            /\ fx[k - 2] = [e |-> "unregister", s |-> fx[k].s, a |-> "-"]
            /\ fx[k - 1] = [e |-> "addFinishedListener", s |-> fx[k].s, a |-> fx[k].a]
    /\ \A i \in SessionIds :
         (sess[i].kind = "scan" /\ PressedBy(i) # {})
         => Unregistered(i) /\ sess[i].timeout = Undefined
    /\ \A k \in 1..Len(fx) :
         fx[k].e = "pressed"
         => \/ finishL[fx[k].a] # <<>>
            \/ \E l \in (k + 1)..Len(fx) :
                 fx[l].e = "finished" /\ fx[l].a = fx[k].a

\* C12 happens: a gesture end has pressed an item, whose action started in
\* the same handler
C12_Witness ==
    /\ act.name = "GestureEnd"
    /\ \E k \in 1..Len(fx) :
         /\ fx[k].e = "pressed"
         /\ \E l \in (k + 1)..Len(fx) : fx[l].e = "action" /\ fx[l].a = fx[k].a

MenuOf(button) == CHOOSE m \in Menus : button \in Range(getButtons(m))
Did(q, e, a) == \E k \in 1..Len(q) : q[k].e = e /\ q[k].a = a
Last(q) == q[Len(q)]

\* C13: the continuation a session registers when it presses a non-selector
\* item is the rescan of its menu with its own callback when the menu is
\* 'repeat', and its callback itself otherwise; and when the item signals
\* completion that continuation is what runs: a 'repeat' menu is scanned
\* again from item 0, loop 0, in a session holding the same callback, which
\* is not called then (no listen controller is started); a 'finish' menu is
\* not scanned again and the callback runs.
C13_CompletionOfPlainItem ==
    [][/\ \A i \in SessionIds : \A b \in PressedBy(i)' :
            buttonType(b) # "menuSelector"
            => Last(finishL'[b]) =
                 IF getInfo(sess'[i].menu).scanType = "repeat"
                 THEN <<Frame("scanMenu", sess'[i].menu)>> \o sess'[i].cb
                 ELSE sess'[i].cb
       /\ \A b \in Buttons :
            (/\ buttonType(b) # "menuSelector"
             /\ Did(fx', "finished", b)
             /\ Len(finishL[b]) = 1)
            => /\ finishL'[b] = <<>>
               /\ IF getInfo(MenuOf(b)).scanType = "repeat"
                  THEN /\ Did(fx', "scanMenu", MenuOf(b))
                       /\ Handled(fx', "listen") = {}
                       /\ \E j \in SessionIds :
                            /\ Registered(j)'
                            /\ sess'[j].menu = MenuOf(b)
                            /\ <<Frame("scanMenu", MenuOf(b))>> \o sess'[j].cb = finishL[b][1]
                            /\ sess'[j].buttonIx = 0 /\ sess'[j].loopIx = 0
                  ELSE /\ ~Did(fx', "scanMenu", MenuOf(b))
                       /\ finishL[b][1] # <<>>
                       /\ Head(finishL[b][1]).f = "afterTarget"
                          => /\ fx'[2].e = "slideUp"
                             /\ Did(fx', "scanMenu", Tail(finishL[b][1])[1].a)]_vars

\* C13 happens: an item of a 'finish' menu that selects no menu has
\* signalled completion to the continuation of the session that pressed it
C13_Witness ==
    /\ act.name = "ActionEnd"
    /\ buttonType(act.button) # "menuSelector"
    /\ getInfo(MenuOf(act.button)).scanType = "finish"
    /\ Did(fx, "finished", act.button)
    /\ Did(fx, "scanMenu", mainMenu)

Times(q, e, a) == Cardinality({k \in 1..Len(q) : q[k].e = e /\ q[k].a = a})
Is(q, k, e, a) == k <= Len(q) /\ q[k].e = e /\ q[k].a = a

\* What follows in the effects q, from position k on, when the callback cbk
\* of a child session is called: the slideUp of a dropdown target, then the
\* start of the outer continuation
AfterChild(q, k, cbk) ==
    (cbk # <<>> /\ Head(cbk).f = "afterTarget")
    => LET b == Head(cbk).a
           outer == Head(Tail(cbk))
           at == IF selectsDropdownMenu(b) THEN k + 1 ELSE k
       IN /\ selectsDropdownMenu(b) => Is(q, k, "slideUp", getTargetMenu(b))
          /\ Is(q, at, outer.f, outer.a)

\* C14: when a menu-selector item signals completion to the continuation of
\* the session that pressed it, scanMenu starts on the target menu in a
\* session whose callback is afterTarget over the outer continuation (the
\* rescan of the parent when the parent is 'repeat'); and whenever such a
\* child session calls its callback, by loop limit or long-gaze exit or
\* through the completion of an item of the child menu, what follows at once
\* is the slideUp of the child menu if it is a dropdown and then the start of
\* the outer continuation; and no session calls its callback twice.
C14_ChildMenuThenOuterContinuation ==
    [][/\ \A b \in Buttons : \A k \in 1..Len(fx') :
            (/\ buttonType(b) = "menuSelector"
             /\ Is(fx', k, "finished", b)
             /\ (finishL[b] # <<>> \/ Did(fx', "addFinishedListener", b)))
            => /\ Is(fx', k + 1, "scanMenu", getTargetMenu(b))
               /\ \E j \in SessionIds :
                    /\ j = fx'[k + 1].s
                    /\ sess'[j].menu = getTargetMenu(b)
                    /\ Head(sess'[j].cb) = Frame("afterTarget", b)
                    /\ getInfo(MenuOf(b)).scanType = "repeat"
                       => sess'[j].cb[2] = Frame("scanMenu", MenuOf(b))
       /\ \A k \in 1..Len(fx') :
            fx'[k].e = "cb" => AfterChild(fx', k + 1, sess'[fx'[k].s].cb)
       /\ \A b \in Buttons : \A k \in 1..Len(fx') :
            (Is(fx', k, "finished", b) /\ finishL[b] # <<>>)
            => AfterChild(fx', k + 1, finishL[b][1])
       /\ \A j \in SessionIds :
            sess'[j].cbCalls <= 1 /\ Count(fx', "cb", j) <= 1]_vars

\* C14 happens: the session of a dropdown child menu has called its callback
\* and the parent is scanned again
C14_Witness ==
    \E k \in 1..Len(fx) :
      /\ fx[k].e = "cb"
      /\ sess[fx[k].s].cb # <<>>
      /\ Head(sess[fx[k].s].cb).f = "afterTarget"
      /\ Is(fx, k + 1, "slideUp", sess[fx[k].s].menu)
      /\ Is(fx, k + 2, "scanMenu", mainMenu)

Before(q, k, e, i) == \E l \in 1..(k - 1) : q[l].e = e /\ q[l].s = i

\* C15: a scan session calls its callback right after its unregister(), and
\* presses an item after it; so when a scanMenu starts in a handler, every
\* session that handed control over in that handler has unregistered before,
\* and a session that has handed control over is not registered.
C15_UnregisteredBeforeContinuation ==
    /\ \A k \in 1..Len(fx) :
         fx[k].e = "cb"
         => k >= 2 /\ fx[k - 1] = [e |-> "unregister", s |-> fx[k].s, a |-> "-"]
    /\ \A k \in 1..Len(fx) : \A l \in 1..(k - 1) :
         (fx[k].e = "scanMenu" /\ fx[l].e \in {"cb", "pressed"})
         => Before(fx, l, "unregister", fx[l].s)
    /\ \A i \in SessionIds :
         (sess[i].kind = "scan" /\ (sess[i].cbCalls > 0 \/ PressedBy(i) # {}))
         => Unregistered(i)

\* C15 happens: a scan session has called its callback, which started
\* scanMenu in a session that is now the one registered
C15_Witness ==
    \E k \in 1..Len(fx) : \E l \in 1..(k - 1) :
      /\ fx[l].e = "cb" /\ fx[k].e = "scanMenu"
      /\ Registered(fx[k].s)
      /\ Unregistered(fx[l].s)

\* C16: a listen controller that handles a gesture end with elapsed >=
\* LONG_GAZE_TIME unregisters and then calls scan(), which starts scanMenu on
\* the main menu, and scan() is called once for each such controller; one
\* that handles a gesture end with a smaller elapsed (or without having seen
\* the begin) stays registered and is unchanged but for its long-gaze timer,
\* and when it is the only listener no scan starts, no item is pressed and
\* nothing else of the program changes.
C16_ListenStartsScanOnLongGaze ==
    [][act'.name = "GestureEnd"
       => /\ \A j \in SessionIds :
               (/\ sess'[j].kind = "listen"
                /\ Count(fx', "gestureEnd", j) = 1
                /\ AtLeast(sess'[j].elapsed, LONG_GAZE_TIME))
               => /\ Unregistered(j)'
                  /\ \E k \in 1..Len(fx') :
                       /\ fx'[k] = [e |-> "gestureEnd", s |-> j, a |-> "-"]
                       /\ fx'[k + 1] = [e |-> "unregister", s |-> j, a |-> "-"]
                       /\ Is(fx', k + 2, "scan", "-")
                       /\ Is(fx', k + 3, "scanMenu", mainMenu)
          /\ Times(fx', "scan", "-") =
               Cardinality({j \in SessionIds :
                              /\ sess'[j].kind = "listen"
                              /\ Count(fx', "gestureEnd", j) = 1
                              /\ AtLeast(sess'[j].elapsed, LONG_GAZE_TIME)})
          /\ \A i \in Range(endL) :
               (sess[i].kind = "listen" /\ ~AtLeast(sess[i].elapsed, LONG_GAZE_TIME))
               => \E j \in SessionIds :
                    /\ Registered(j)'
                    /\ sess'[j] = [sess[i] EXCEPT !.longGazeTimeout = Undefined,
                                                 !.heard = TRUE]
                    /\ Count(fx', "unregister", j) = 0
                    /\ Len(endL) = 1
                       => /\ fx' = <<[e |-> "gestureEnd", s |-> j, a |-> "-"]>>
                          /\ beginL' = beginL /\ endL' = endL /\ stopL' = stopL
                          /\ status' = status /\ on' = on /\ shown' = shown
                          /\ finishL' = finishL /\ speaking' = speaking
                          /\ acting' = acting]_vars

\* C16 happens: the listen controller has handled the end of a gesture that
\* lasted SHORT_GAZE_TIME or more but less than LONG_GAZE_TIME
C16_Witness ==
    /\ act.name = "GestureEnd"
    /\ \E j \in Range(endL) :
         /\ sess[j].kind = "listen"
         /\ Count(fx, "gestureEnd", j) = 1
         /\ AtLeast(sess[j].elapsed, SHORT_GAZE_TIME)
         /\ Below(sess[j].elapsed, LONG_GAZE_TIME)

\* A session of the top-level sweep: its callback is listen
TopLevel(i) == sess[i].kind = "scan" /\ sess[i].cb = ListenCb

\* C17 as stated: after any terminal exit of a top-level session, by its
\* callback or by a stop, a listen controller is registered and the detector
\* is in listening mode.
C17_EveryExitReturnsToListen ==
    \A i \in SessionIds :
      (TopLevel(i) /\ (sess[i].cbCalls > 0 \/ sess[i].stopped))
      => /\ \E j \in SessionIds : sess[j].kind = "listen" /\ Registered(j)
         /\ status = "listening"

\* C17: a top-level session that has ended by the loop limit or by a long
\* gaze has called listen() right after its callback was invoked: the new
\* listen controller is registered and the detector is in listening mode
\* (unless a scan() started later in the same handler); one that was stopped
\* has not called listen(): it is unregistered and the detector is idle.
C17_ExitReturnsToListenUnlessStopped ==
    \A i \in SessionIds :
      TopLevel(i)
      => /\ sess[i].cbCalls > 0
            => \E k \in 1..Len(fx) :
                 /\ fx[k] = [e |-> "cb", s |-> i, a |-> "-"]
                 /\ Is(fx, k + 1, "listen", "-")
                 /\ sess[fx[k + 1].s].kind = "listen"
                 /\ Registered(fx[k + 1].s)
                 /\ (\A l \in (k + 1)..Len(fx) : fx[l].e # "scan")
                    => status = "listening"
         /\ sess[i].stopped
            => /\ Unregistered(i)
               /\ sess[i].cbCalls = 0
               /\ Handled(fx, "listen") = {}
               /\ status = "idle"

\* C17 happens: a top-level session has ended by the loop limit or a long
\* gaze and the listen controller is registered again
C17_Witness ==
    \E i \in SessionIds :
      /\ TopLevel(i) /\ sess[i].cbCalls = 1
      /\ \E j \in SessionIds : sess[j].kind = "listen" /\ Registered(j)
      /\ status = "listening"

\* A menu all of whose items are empty
AllEmpty(menu) == NonEmpty(menu) = <<>>

\* C18: a scanMenu of a menu whose items are all empty ends inside the call:
\* right after it starts, the session unregisters and invokes its callback,
\* once; it has visited and announced no item, highlighted none, holds no
\* step timer and is unregistered.
C18_AllEmptyMenuCompletesAtOnce ==
    \A k \in 1..Len(fx) :
      (fx[k].e = "scanMenu" /\ AllEmpty(fx[k].a))
      => LET j == fx[k].s IN
         /\ Is(fx, k + 1, "unregister", "-") /\ fx[k + 1].s = j
         /\ Is(fx, k + 2, "cb", "-") /\ fx[k + 2].s = j
         /\ Count(fx, "cb", j) = 1
         /\ sess[j].kind = "scan" /\ sess[j].menu = fx[k].a
         /\ sess[j].cbCalls = 1
         /\ sess[j].trail = <<>>
         /\ sess[j].currentButton = NoButton
         /\ sess[j].timeout = Undefined
         /\ Count(fx, "announce", j) = 0
         /\ \A b \in Range(getButtons(fx[k].a)) : ~on[b]
         /\ Unregistered(j)

\* C18 happens: a menu with only empty items has been scanned, and its
\* session has completed
C18_Witness ==
    \E k \in 1..Len(fx) :
      /\ fx[k].e = "scanMenu" /\ AllEmpty(fx[k].a)
      /\ sess[fx[k].s].cbCalls = 1

\* The events the user causes
UserEvents == {"Start", "Stop", "GestureBegin", "GestureEnd"}

\* Nothing but one listen controller is registered and the detector listens,
\* or nothing is registered and the detector is idle
AtRest ==
    \/ /\ status = "listening"
       /\ \E j \in SessionIds : /\ sess[j].kind = "listen"
                                /\ beginL = <<j>> /\ endL = <<j>> /\ stopL = <<j>>
    \/ /\ status = "idle"
       /\ beginL = <<>> /\ endL = <<>> /\ stopL = <<>>

NoStepTimer == \A i \in SessionIds : sess[i].timeout = Undefined
NoHighlight == \A b \in Buttons : ~on[b]

\* C19 as stated: if from some point on there is no click on Start or Stop
\* and no gesture event, then from some point on the program is at rest with
\* no step timer pending and no item highlighted.
C19_EventuallyAtRest ==
    (<>[][act'.name \notin UserEvents]_vars)
    => <>[](AtRest /\ NoStepTimer /\ NoHighlight)

\* C20: when the stop button is clicked while listen controllers are
\* registered, each of them announces "stopping", is unregistered and the
\* detector is idle; and from then until the start button is clicked no
\* gesture begin or end calls scan().
C20_StoppedListenStaysStopped ==
    [][/\ (act'.name = "Stop" /\ \E i \in Range(stopL) : sess[i].kind = "listen")
          => /\ halted'
             /\ \A j \in Handled(fx', "stopping") :
                  sess'[j].kind = "listen" => sess'[j].stopped /\ Unregistered(j)'
             /\ Cardinality({j \in Handled(fx', "stopping") : sess'[j].kind = "listen"})
                  = Cardinality({i \in Range(stopL) : sess[i].kind = "listen"})
             /\ status' = "idle"
       /\ (halted /\ act'.name \in {"GestureBegin", "GestureEnd"})
          => Times(fx', "scan", "-") = 0]_vars

\* The finished listeners that are waiting, over all buttons
PendingListeners ==
    Cardinality({<<b, i>> \in Buttons \X SessionIds : i <= Len(finishL[b])})

\* C21: an emission of "buttonFinished" leaves the item without listeners,
\* so each continuation is called by one emission only: when an announcement
\* or an action ends or the item is clicked, every listener that was
\* waiting is replaced by one registered session, and an emission that finds
\* no listener starts no scan and no listen controller.
C21_ContinuationRunsOnce ==
    [][/\ \A k \in 1..Len(fx') :
            fx'[k].e = "finished" => finishL'[fx'[k].a] = <<>>
       /\ act'.name \in {"ActionEnd", "SpeechEnd", "MouseClick"}
          => /\ Len(stopL') + PendingListeners' = Len(stopL) + PendingListeners
             /\ finishL[act'.button] = <<>>
                => /\ Handled(fx', "scanMenu") = {}
                   /\ Handled(fx', "listen") = {}
                   /\ stopL' = stopL]_vars

\* C21 happens: an action has ended and emitted "buttonFinished" when the
\* continuation had already run, and nothing has started
C21_Witness ==
    /\ act.name = "ActionEnd"
    /\ \E k \in 1..Len(fx) : fx[k].e = "finished" /\ fx[k].a = act.button
    /\ Handled(fx, "scanMenu") = {} /\ Handled(fx, "listen") = {}

\* C22: every closure that has registered its handlers and not removed them
\* handles the gesture begin of the detector in use, whether or not the
\* detector was changed since it registered; and no emitter, of the detector
\* in use or of one that was replaced, holds a gesture handler of a closure
\* that has unregistered.
C22_SwitchIsTransparent ==
    [][/\ act'.name = "GestureBegin"
          => \A i \in Range(stopL) : Count(fx', "gestureBegin", i) = 1
       /\ (Range(beginL') \cup Range(endL') \cup Range(old'.beginL)
                          \cup Range(old'.endL)) \subseteq Range(stopL')]_vars

\* C23: the step a session has just started (its last announcement in the
\* handler) holds a timer of the scan speed for an item that is not an email
\* item and of twice the scan speed for an email item, the item is the
\* session's current one; and the time a Tick lets pass is taken off every
\* pending step timer alike, and a step timer fires when nothing is left.
C23_StepTimerIsSpeedTimesMultiplier ==
    [][/\ \A k \in 1..Len(fx') :
            (/\ fx'[k].e = "announce"
             /\ \A l \in (k + 1)..Len(fx') :
                  ~(fx'[l].e = "announce" /\ fx'[l].s = fx'[k].s))
            => /\ sess'[fx'[k].s].currentButton = fx'[k].a
               /\ sess'[fx'[k].s].timeout =
                    IF buttonType(fx'[k].a) = "email" THEN 2 * ScanSpeed
                                                      ELSE ScanSpeed
       /\ act'.name = "Tick"
          => \E d \in 1..TickMax : \A i \in SessionIds :
               sess'[i].timeout = IF sess[i].timeout = Undefined THEN Undefined
                                  ELSE sess[i].timeout - d
       /\ act'.name = "StepTimeout"
          => \E i \in SessionIds : sess[i].timeout = 0]_vars

\* C23 happens: an email item has been highlighted for the scan speed, and
\* its step timer has as long to go
C23_Witness ==
    \E i \in SessionIds :
      /\ sess[i].kind = "scan" /\ Registered(i)
      /\ buttonType(sess[i].currentButton) = "email"
      /\ sess[i].timeout = ScanSpeed
      /\ act.name = "Tick"

\* The session in slot j after a step timeout is the one that was in slot p
SameSession(p, j) ==
    IF j \in Range(stopL') THEN p = j
    ELSE /\ sess[p].menu = sess'[j].menu /\ sess[p].cb = sess'[j].cb
         /\ sess[p].trail = sess'[j].trail
         /\ sess[p].buttonIx = sess'[j].buttonIx /\ sess[p].loopIx = sess'[j].loopIx

\* C24: a sweep that comes to an empty item starts its next pass at item 0
\* instead: the empty item is not made current, highlighted or announced and
\* gets no timer. When a step timeout brings the session to an empty item in
\* loop L, then either L + 1 is the loop limit and the session ends
\* (unregistered, callback called, no timer), or the session is at item 0 in
\* loop L + 1 with that item announced and timed. A scanMenu of a menu whose
\* item 0 is empty ends in the call, whatever items follow.
C24_EmptyItemRestartsSweep ==
    [][/\ act'.name = "StepTimeout"
          => \A p \in SessionIds :
               LET j == act'.id
                   c == sess[p]
                   n == nextButton(c.menu, c.buttonIx)
                   L == nextLoop(c.menu, c.buttonIx, c.loopIx)
                   b == getButtons(c.menu)[n + 1]
                   first == getButtons(c.menu)[1]
               IN (c.timeout = 0 /\ SameSession(p, j) /\ ~isLoopOver(L) /\ empty[b])
                  => /\ on'[b] = on[b]
                     /\ sess'[j].currentButton # b
                     /\ \A k \in 1..Len(fx') : fx'[k].a # b
                     /\ IF isLoopOver(L + 1)
                        THEN /\ j \notin Range(beginL') \cup Range(endL') \cup Range(stopL')
                             /\ Count(fx', "cb", j) = 1
                             /\ Count(fx', "announce", j) = 0
                             /\ sess'[j].timeout = Undefined
                             /\ sess'[j].trail = c.trail
                        ELSE /\ sess'[j].buttonIx = 0 /\ sess'[j].loopIx = L + 1
                             /\ sess'[j].currentButton = first
                             /\ sess'[j].trail = Append(c.trail, first)
                             /\ sess'[j].timeout = getWaitTime(first)
                             /\ Count(fx', "announce", j) = 1
                             /\ Count(fx', "cb", j) = 0
       /\ \A k \in 1..Len(fx') :
            (fx'[k].e = "scanMenu" /\ empty[getButtons(fx'[k].a)[1]])
            => LET j == fx'[k].s IN
               /\ Is(fx', k + 1, "unregister", "-") /\ fx'[k + 1].s = j
               /\ Is(fx', k + 2, "cb", "-") /\ fx'[k + 2].s = j
               /\ Count(fx', "announce", j) = 0
               /\ sess'[j].trail = <<>>
               /\ sess'[j].currentButton = NoButton
               /\ sess'[j].timeout = Undefined]_vars

\* C24 happens: a step timeout has brought a session to an empty item in
\* its first loop, and the session is at item 0 in its second loop
C24_Witness ==
    \E i \in SessionIds :
      /\ act.name = "StepTimeout" /\ act.id = i
      /\ sess[i].kind = "scan" /\ Registered(i)
      /\ Len(Lead(sess[i].menu)) = 1 /\ getNButtons(sess[i].menu) = 2
      /\ sess[i].buttonIx = 0 /\ sess[i].loopIx = 1
      /\ sess[i].trail = <<getButtons(sess[i].menu)[1], getButtons(sess[i].menu)[1]>>

\* The items that a stepping session holds highlighted: the current item of
\* each registered scan session
Stepping == {sess[i].currentButton : i \in {j \in SessionIds : sess[j].kind = "scan" /\ Registered(j)}}

\* C25: at most one item is highlighted, and while a scan session that has
\* ended (by its callback, by pressing an item or by a stop) is still in
\* view, no item of its menu is highlighted, except the current item of a
\* session that is stepping.
C25_HighlightingIsBalanced ==
    /\ Cardinality({b \in Buttons : on[b]}) <= 1
    /\ \A i \in SessionIds :
         (sess[i].kind = "scan" /\ Unregistered(i))
         => \A b \in Range(getButtons(sess[i].menu)) : on[b] => b \in Stepping

\* No handler of the scanner is registered
NoHandlers == beginL = <<>> /\ endL = <<>> /\ stopL = <<>>

C27_UnmatchedGestureEndIsIgnored ==
    [][act'.name = "GestureEnd"
       => /\ \A p \in Range(endL) :
               p \notin gest.seen
               => /\ sess[p].elapsed = Undefined
                  /\ \E j \in Range(beginL') \cap Range(endL') \cap Range(stopL') :
                       /\ j <= p
                       /\ sess'[j] = [sess[p] EXCEPT !.heard = TRUE]
                       /\ Count(fx', "gestureEnd", j) = 1
                       /\ Count(fx', "pressed", j) = 0
                       /\ Count(fx', "cb", j) = 0
                       /\ Count(fx', "unregister", j) = 0
          /\ (\A p \in Range(endL) : p \notin gest.seen)
             => /\ Handled(fx', "scanMenu") = {} /\ Handled(fx', "scan") = {}
                /\ Handled(fx', "listen") = {}
                /\ status' = status /\ on' = on /\ finishL' = finishL
          /\ \A j \in Handled(fx', "scanMenu") \cup Handled(fx', "listen") :
               /\ Count(fx', "gestureEnd", j) = 0
               /\ ~sess'[j].heard]_vars

\* C27 happens: a scan session that was started while a gesture was under
\* way has been handed the end of that gesture, and steps on
C27_Witness ==
    \E j \in SessionIds :
      /\ act.name = "GestureEnd"
      /\ Count(fx, "gestureEnd", j) = 1
      /\ sess[j].kind = "scan" /\ sess[j].elapsed = Undefined
      /\ Registered(j) /\ sess[j].timeout # Undefined
      /\ sess[j].cbCalls = 0

\* A continuation that ends in the root continuation listen and holds it once
EndsInListen(cb) ==
    /\ cb # <<>> /\ cb[Len(cb)] = Frame("listen", "-")
    /\ \A k \in 1..(Len(cb) - 1) : cb[k].f # "listen"
HowMany(q, e) == Cardinality({k \in 1..Len(q) : q[k].e = e})

\* C28: the root continuation is handed down every chain intact and is
\* called once, at its end. The callback of every scan session and every
\* continuation that waits for an item ends in listen and holds it once; a
\* handler calls listen() once for each top-level session that calls its
\* callback in it (and once for a click on Start), the call follows that
\* callback at once, and no session calls its callback twice; and every
\* handler but a click on Start or on Stop leaves as many threads of control
\* (registered closures and waiting continuations) as it found, while Stop
\* ends one for each closure that handles it: a chain ends in listen or in a
\* stop, and in nothing else.
C28_ListenOncePerChain ==
    [][/\ \A i \in SessionIds : sess'[i].kind = "scan" => EndsInListen(sess'[i].cb)
       /\ \A b \in Buttons : \A k \in 1..Len(finishL'[b]) :
            EndsInListen(finishL'[b][k]) /\ finishL'[b][k] # ListenCb
       /\ HowMany(fx', "listen")
            = (IF act'.name = "Start" THEN 1 ELSE 0)
              + Cardinality({k \in 1..Len(fx') :
                               fx'[k].e = "cb" /\ sess'[fx'[k].s].cb = ListenCb})
       /\ \A k \in 1..Len(fx') :
            (fx'[k].e = "cb" /\ sess'[fx'[k].s].cb = ListenCb)
            => Is(fx', k + 1, "listen", "-")
       /\ \A i \in SessionIds : sess'[i].cbCalls <= 1 /\ Count(fx', "cb", i) <= 1
       /\ Len(stopL') + PendingListeners'
            = Len(stopL) + PendingListeners
              + (IF act'.name = "Start" THEN 1 ELSE 0) - HowMany(fx', "stopping")
       /\ act'.name # "Stop" => HowMany(fx', "stopping") = 0]_vars

\* C28 happens: a top-level session has ended at the loop limit and has
\* called listen(); the listen controller is the one thread of control
C28_Witness ==
    \E k \in 1..Len(fx) :
      /\ act.name = "StepTimeout"
      /\ fx[k].e = "cb" /\ TopLevel(fx[k].s)
      /\ Is(fx, k + 1, "listen", "-")
      /\ HowMany(fx, "listen") = 1
      /\ Len(stopL) + PendingListeners = 1

\* The continuation that scans the root menu again, with listen behind it
RootRescan == <<Frame("scanMenu", mainMenu)>> \o ListenCb
\* What a child session of the menu calls back: afterTarget of the item that
\* selected the menu, over the rescan of the root
ChildCb(menu) ==
    {<<Frame("afterTarget", b)>> \o RootRescan :
       b \in {x \in Buttons : buttonType(x) = "menuSelector" /\ getTargetMenu(x) = menu}}
\* What waits for the completion of an item
Waiting(b) ==
    IF buttonType(b) = "menuSelector"
    THEN {<<Frame("scanMenu", getTargetMenu(b)), Frame("afterTarget", b)>> \o RootRescan}
    ELSE IF MenuOf(b) = mainMenu THEN {RootRescan} ELSE ChildCb(MenuOf(b))

C30_ModeTracksController ==
    [][/\ (\E i \in Range(stopL') : sess'[i].kind = "listen") => status' = "listening"
       /\ ((\E i \in Range(stopL') : sess'[i].kind = "scan") \/ PendingListeners' > 0)
          => status' = "scanning"
       /\ (NoHandlers' /\ PendingListeners' = 0) => status' = "idle"
       /\ HowMany(fx', "stopping") > 0 => status' = "idle" /\ NoHandlers'
       /\ (status = "idle" /\ act'.name # "Start") => status' = "idle"
       /\ act'.name = "Start" => status' = "listening"]_vars

\* C30 happens: a scan session has handled a click on Stop, nothing is
\* registered and the detector is idle
C30_Witness ==
    /\ act.name = "Stop"
    /\ \E i \in SessionIds : sess[i].kind = "scan" /\ sess[i].stopped
                              /\ Count(fx, "stopping", i) = 1
    /\ NoHandlers /\ PendingListeners = 0
    /\ status = "idle"

\* C31: when the cue has sounded during a gesture, the handlers of its end
\* press no item: a scan session that handled the begin calls its callback
\* (menu exit), a listen controller that handled it starts a scan, and a
\* closure that did not handle the begin stays registered as it was.
C31_NoActivationAfterCue ==
    [][(act'.name = "GestureEnd" /\ gest.beeps >= 1)
       => /\ \A k \in 1..Len(fx') : fx'[k].e # "pressed"
          /\ \A p \in gest.seen \cap Range(endL) :
               IF sess[p].kind = "scan"
               THEN \E j \in SessionIds :
                      /\ sess'[j].kind = "scan" /\ sess'[j].menu = sess[p].menu
                      /\ Count(fx', "gestureEnd", j) = 1
                      /\ Count(fx', "cb", j) = 1
                      /\ j \notin Range(beginL') \cup Range(endL') \cup Range(stopL')
               ELSE \E j \in SessionIds :
                      /\ sess'[j].kind = "listen"
                      /\ Count(fx', "gestureEnd", j) = 1
                      /\ j \notin Range(beginL') \cup Range(endL') \cup Range(stopL')
                      /\ HowMany(fx', "scan") >= 1
          /\ \A p \in Range(endL) \ gest.seen :
               \E j \in Range(stopL') : sess'[j] = [sess[p] EXCEPT !.heard = TRUE]]_vars

\* Begin and end take turns in the emissions q, begin first
Alternating(q) ==
    \A k \in 1..Len(q) : q[k] = IF k % 2 = 1 THEN "gestureBegin" ELSE "gestureEnd"

\* C32: whatever the polls and the changes of mode, the gaze detector emits
\* "gestureBegin" and "gestureEnd" in turn, "gestureBegin" first: a step
\* emits at most one event, "gestureBegin" exactly when the tracked state
\* goes from rest to gaze and "gestureEnd" exactly when it goes from gaze to
\* rest, and a change of mode emits nothing and keeps the tracked state.
C32_GestureEventsAlternate ==
    [][/\ Alternating(gazeDetector'.emitted)
       /\ gazeDetector'.emitted = gazeDetector.emitted \o gazeDetector'.out
       /\ Len(gazeDetector'.out) <= 1
       /\ gazeDetector'.out = <<"gestureBegin">>
          <=> (gazeDetector.state = "rest" /\ gazeDetector'.state = "gaze")
       /\ gazeDetector'.out = <<"gestureEnd">>
          <=> (gazeDetector.state = "gaze" /\ gazeDetector'.state = "rest")
       /\ gazeDetector'.op # "detect"
          => gazeDetector'.state = gazeDetector.state /\ gazeDetector'.out = <<>>]_vars

\* C32 happens: two gestures have been emitted from begin to end, the last
\* end by a poll in scan mode
C32_Witness ==
    /\ gazeDetector.emitted = <<"gestureBegin", "gestureEnd", "gestureBegin", "gestureEnd">>
    /\ gazeDetector.out = <<"gestureEnd">>
    /\ gazeDetector.interval = "scan"

BeforeWord(text) ==
    LET spaces == {k \in 1..Len(text) : text[k] = " "}
    IN IF spaces = {} THEN <<>>
       ELSE SubSeq(text, 1, CHOOSE k \in spaces : \A l \in spaces : l <= k)

\* The text is empty or ends with ".", "!" or "?" and a space
AtSentenceStart(text) ==
    \/ text = <<>>
    \/ /\ Len(text) >= 2
       /\ text[Len(text)] = " "
       /\ text[Len(text) - 1] \in {".", "!", "?"}

\* The text with its first character in upper case
Capitalized(text) == [text EXCEPT ![1] = toUpperCase(@)]

EndsWithWordSpace(text) ==
    /\ Len(text) >= 1
    /\ text[Len(text)] = " "
    /\ ~(Len(text) >= 2 /\ text[Len(text) - 1] \in {".", "!", "?"})

\* C35: write(p, "terminalPunctuation") takes back the trailing space of a
\* text that ends with a space not preceded by terminal punctuation, and
\* removes no other character; in every case the text afterwards is what is
\* kept of the previous text, then p, then one space.
C35_PunctuationTakesBackSpace ==
    [][(buffer'.call.name = "write" /\ buffer'.call.type = "terminalPunctuation")
       => LET text == getText(buffer)
              kept == IF EndsWithWordSpace(text)
                      THEN SubSeq(text, 1, Len(text) - 1) ELSE text
          IN getText(buffer') = kept \o buffer'.call.text \o <<" ">>]_vars

\* C35 happens: a full stop was written after a word and its space, and
\* stands next to the word
C35_Witness ==
    /\ buffer.call.name = "write" /\ buffer.call.type = "terminalPunctuation"
    /\ buffer.call.before = <<"H", "i", " ">>
    /\ getText(buffer) = <<"H", "i", ".", " ">>

\* C36: write(c, "letter") appends one character to the text, the letter in
\* upper case exactly when the text was empty or ended with ".", "!" or "?"
\* and a space, and the letter as given otherwise; the previous text is a
\* prefix of the new one.
C36_LetterAppendsOneCharacter ==
    [][(buffer'.call.name = "write" /\ buffer'.call.type = "letter")
       => LET text == getText(buffer)
              c == buffer'.call.text[1]
          IN /\ Len(getText(buffer')) = Len(text) + 1
             /\ SubSeq(getText(buffer'), 1, Len(text)) = text
             /\ getText(buffer')[Len(text) + 1] =
                    IF AtSentenceStart(text) THEN toUpperCase(c) ELSE c]_vars

\* C36 happens: a letter was written in upper case after a full stop and a
\* space, behind a word whose second letter was written in lower case
C36_Witness ==
    /\ buffer.call.name = "write" /\ buffer.call.type = "letter"
    /\ buffer.call.before = <<"A", "a", ".", " ">>
    /\ getText(buffer) = <<"A", "a", ".", " ", "A">>

\* C37: executeAction("delete", cb) removes the last character of a text
\* that is not empty and nothing else, leaves an empty text empty with the
\* cursor in place, and in both cases emits "bufferChange" once and calls cb
\* once.
C37_DeleteRemovesLastCharacter ==
    [][buffer'.call.name = "delete"
       => LET text == getText(buffer)
          IN /\ getText(buffer') =
                    IF text = <<>> THEN <<>> ELSE SubSeq(text, 1, Len(text) - 1)
             /\ buffer'.bufferText = getText(buffer') \o <<CURSOR>>
             /\ buffer'.changes = 1
             /\ buffer'.cbs = 1]_vars

\* C37 happens: a "delete" on an empty text has left the cursor alone,
\* emitted one change and called back once
C37_Witness ==
    /\ buffer.call.name = "delete"
    /\ buffer.call.before = <<>>
    /\ buffer.bufferText = <<CURSOR>>
    /\ buffer.changes = 1 /\ buffer.cbs = 1

\* C38: util.pad(xs, fillVal, len) returns an array of length len that
\* starts with the first min(len, |xs|) elements of xs in their order and
\* holds fillVal everywhere after them, and xs is as it was given.
C38_PadGivesLenElements ==
    padded.op = "pad"
    => LET n == IF padded.len <= Len(padded.given) THEN padded.len ELSE Len(padded.given)
       IN /\ Len(padded.ret) = padded.len
          /\ \A k \in 1..n : padded.ret[k] = padded.given[k]
          /\ \A k \in (n + 1)..padded.len : padded.ret[k] = padded.fillVal
          /\ padded.xs = padded.given

\* C38 happens: an array of three elements was cut to two
C38_Witness ==
    /\ padded.op = "pad"
    /\ padded.given = <<"q", "z", "q">> /\ padded.len = 2
    /\ padded.ret = <<"q", "z">>

====
